---- MODULE Spec2Model ----
(***************************************************************************)
(* Model of src/ai-writer.js: the regex linter (buildRegexRules, lint),    *)
(* the rate-limit retry in chat, the repair loop (generateText,            *)
(* rewriteText, runRepairLoop) and the command dispatch in main.           *)
(*                                                                         *)
(* A text is a sequence of tokens.  A token stands for a maximal piece of  *)
(* text that one rule pattern matches as a whole (or that no pattern       *)
(* matches), or for a line terminator.                                     *)
(***************************************************************************)
EXTENDS Integers, Sequences, FiniteSets, TLC

\* ------------------------------------------------------------------ bounds
MaxLen == 5
MaxFullLen == 2
MaxCapLen == 1
MaxLoopsArg == 2
NegLoopsArg == 1
MaxCount == 2
MaxRelintLen == 2
MaxScanLen == 3
MaxIssues == 12

\* ------------------------------------------------------- program constants
MAX_LOOPS_DEFAULT == 3
RATE_LIMIT_STATUS == 429
PENALTY_CAP == 98
SCORE_BASE == 100
DEFAULT_WEIGHT == 4
REPAIR_ISSUE_LIMIT == 10
EXIT_CLEAN == 0
EXIT_FATAL == 1
EXIT_FINDINGS == 2

Max(a, b) == IF a >= b THEN a ELSE b
Min(a, b) == IF a <= b THEN a ELSE b

\* ------------------------------------------------------------------ tokens
NL == "\n"
CRNL == "\r\n"
LineBreaks == {NL, CRNL}

\* Sample tokens used to enumerate texts: a plain word, a line terminator,
\* and one match for a rule of each severity.
Alphabet == {"plain", NL, "as an ai", "leverage", "(em dash)", "**b**"}

\* "(em dash)" and "(emoji)" stand for the one non-ASCII character each.
\* Character length of a token (used for the 1-based column of a match).
TokLen(tok) ==
  CASE tok = "plain" -> 5
    [] tok = NL -> 1
    [] tok = CRNL -> 2
    [] tok = "as an ai" -> 8
    [] tok = "leverage" -> 8
    [] tok = "(em dash)" -> 1
    [] tok = "**b**" -> 5
    [] tok = "groundbreaking" -> 14
    [] tok = ", highlighting" -> 14
    [] tok = "featured in forbes" -> 18
    [] tok = "moreover" -> 8
    [] tok = "not only a but also " -> 20
    [] tok = "it's not just a it's" -> 20
    [] tok = "in conclusion, " -> 15
    [] tok = "going forward" -> 13
    [] tok = "studies show" -> 12
    [] tok = "(emoji)" -> 2
    [] OTHER -> 1

\* Every token of TokLen: a match for each rule of the catalog.
FullAlphabet ==
  Alphabet \cup {CRNL, "groundbreaking", ", highlighting", "featured in forbes",
                 "moreover", "not only a but also ", "it's not just a it's",
                 "in conclusion, ", "going forward", "studies show", "(emoji)"}

\* The tokens of the texts the capability returns.
CapAlphabet == {"plain", NL, "as an ai", "leverage", "**b**"}

\* All texts of at most n tokens over the alphabet A.
TextsUpTo(A, n) == UNION {[1..k -> A] : k \in 0..n}

\* --------------------------------------------------------- buildRegexRules
\* The compiled rules in the order buildRegexRules pushes them.  tokens is
\* the set of tokens the pattern matches; anchored is TRUE for the pattern
\* that starts with ^ and so matches at the start of a line only.
LINT_RULES ==
  << [id |-> "puffery", category |-> "tone", severity |-> "high",
      description |-> "Peacock word (adds no information)",
      tokens |-> {"groundbreaking"}, anchored |-> FALSE],
     [id |-> "superficial_gerund", category |-> "tone", severity |-> "high",
      description |-> "Vague gerund padding",
      tokens |-> {", highlighting"}, anchored |-> FALSE],
     [id |-> "coverage_chest_thumping", category |-> "tone", severity |-> "medium",
      description |-> "Media name-dropping without context",
      tokens |-> {"featured in forbes"}, anchored |-> FALSE],
     [id |-> "banned_vocabulary", category |-> "vocabulary", severity |-> "high",
      description |-> "AI vocabulary tell",
      tokens |-> {"leverage"}, anchored |-> FALSE],
     [id |-> "banned_transition", category |-> "vocabulary", severity |-> "medium",
      description |-> "Formulaic transition",
      tokens |-> {"moreover"}, anchored |-> FALSE],
     [id |-> "not_only_but", category |-> "vocabulary", severity |-> "high",
      description |-> "Negative parallelism pattern",
      tokens |-> {"not only a but also "}, anchored |-> FALSE],
     [id |-> "its_not_just", category |-> "vocabulary", severity |-> "high",
      description |-> "It's not just... it's pattern",
      tokens |-> {"it's not just a it's"}, anchored |-> FALSE],
     [id |-> "formulaic_ending", category |-> "structure", severity |-> "high",
      description |-> "Formulaic ending",
      tokens |-> {"in conclusion, "}, anchored |-> TRUE],
     [id |-> "future_boilerplate", category |-> "structure", severity |-> "medium",
      description |-> "Future outlook boilerplate",
      tokens |-> {"going forward"}, anchored |-> FALSE],
     [id |-> "em_dash", category |-> "formatting", severity |-> "medium",
      description |-> "Em dash (use comma or period)",
      tokens |-> {"(em dash)"}, anchored |-> FALSE],
     [id |-> "chatbot_leakage", category |-> "formatting", severity |-> "critical",
      description |-> "Chatbot leakage",
      tokens |-> {"as an ai"}, anchored |-> FALSE],
     [id |-> "vague_citation", category |-> "formatting", severity |-> "medium",
      description |-> "Vague/unverifiable citation",
      tokens |-> {"studies show"}, anchored |-> FALSE],
     [id |-> "bold_emphasis", category |-> "formatting", severity |-> "low",
      description |-> "Bold emphasis in paragraph",
      tokens |-> {"**b**"}, anchored |-> FALSE],
     [id |-> "emoji", category |-> "formatting", severity |-> "low",
      description |-> "Emoji in text",
      tokens |-> {"(emoji)"}, anchored |-> FALSE] >>

\* -------------------------------------------------------------------- lint
\* text.split(/\r?\n/): the lines between line terminators; a text with no
\* terminator is one line, and a trailing terminator leaves an empty line.
RECURSIVE SplitFrom(_, _, _)
SplitFrom(text, i, cur) ==
  IF i > Len(text) THEN <<cur>>
  ELSE IF text[i] \in LineBreaks THEN <<cur>> \o SplitFrom(text, i + 1, <<>>)
  ELSE SplitFrom(text, i + 1, Append(cur, text[i]))

SplitLines(text) == SplitFrom(text, 1, <<>>)

\* match.index + 1 of the token at position i of a line.
RECURSIVE Column(_, _)
Column(line, i) ==
  IF i <= 1 THEN 1 ELSE Column(line, i - 1) + TokLen(line[i - 1])

\* The while loop over rule.pattern.exec(line): one hit per match, scanning
\* from lastIndex = 0 to the end of the line.
RECURSIVE ScanRule(_, _, _, _)
ScanRule(rule, line, lineIdx, i) ==
  IF i > Len(line) THEN <<>>
  ELSE IF line[i] \in rule.tokens /\ (rule.anchored => i = 1)
    THEN << [rule |-> rule.id, category |-> rule.category,
             description |-> rule.description, severity |-> rule.severity,
             line |-> lineIdx, column |-> Column(line, i), match |-> line[i]] >>
         \o ScanRule(rule, line, lineIdx, i + 1)
    ELSE ScanRule(rule, line, lineIdx, i + 1)

\* LINT_RULES.forEach for one line.
RECURSIVE ScanLine(_, _, _)
ScanLine(line, lineIdx, r) ==
  IF r > Len(LINT_RULES) THEN <<>>
  ELSE ScanRule(LINT_RULES[r], line, lineIdx, 1) \o ScanLine(line, lineIdx, r + 1)

\* lines.forEach.
RECURSIVE ScanLines(_, _)
ScanLines(lines, k) ==
  IF k > Len(lines) THEN <<>>
  ELSE ScanLine(lines[k], k, 1) \o ScanLines(lines, k + 1)

\* The first position at or after i where the pattern matches, 0 if none:
\* rule.pattern.exec(line) searches from lastIndex on.
RECURSIVE NextMatch(_, _, _)
NextMatch(rule, line, i) ==
  IF i > Len(line) THEN 0
  ELSE IF line[i] \in rule.tokens /\ (rule.anchored => i = 1) THEN i
  ELSE NextMatch(rule, line, i + 1)

\* lastIndex of every pattern when the module is loaded.  lastIndex is
\* counted in tokens of the line scanned.
FreshIndex == [r \in 1..Len(LINT_RULES) |-> 0]

\* if (rule.pattern.test(line)) hits.push(...): no reset, one match at most,
\* and the pattern keeps the position after that match.
ExecLoop_TestOnce(rule, line, lineIdx, li) ==
  LET found == ScanRule(rule, line, lineIdx, li + 1)
  IN  [hits |-> IF Len(found) = 0 THEN <<>> ELSE << found[1] >>,
       lastIndex |-> NextMatch(rule, line, li + 1)]

\* One rule on one line, on the pattern object every lint call shares:
\* rule.pattern.lastIndex = 0, then exec until it returns null, which
\* leaves lastIndex at 0.  li is the lastIndex the pattern was left with.
ExecLoop(rule, line, lineIdx, li) ==
  LET start == 0
  IN  [hits |-> ScanRule(rule, line, lineIdx, start + 1), lastIndex |-> 0]

\* The exec loops of rule r on the lines from k on, in the order lint runs
\* them: each starts with the lastIndex the loop before it left in the
\* pattern, li being the one the pattern has when line k is reached.
RECURSIVE RuleRuns(_, _, _, _)
RuleRuns(r, lines, k, li) ==
  IF k > Len(lines) THEN <<>>
  ELSE LET e == ExecLoop(LINT_RULES[r], lines[k], k, li)
       IN  << e >> \o RuleRuns(r, lines, k + 1, e.lastIndex)

\* The exec loops of every rule from r on, rule by rule.
RECURSIVE AllRuns(_, _, _)
AllRuns(lines, r, li) ==
  IF r > Len(LINT_RULES) THEN <<>>
  ELSE << RuleRuns(r, lines, 1, li[r]) >> \o AllRuns(lines, r + 1, li)

\* LINT_RULES.forEach for line k: the hits pushed, in rule order.
RECURSIVE ScanLineShared(_, _, _)
ScanLineShared(runs, k, r) ==
  IF r > Len(LINT_RULES) THEN <<>>
  ELSE runs[r][k].hits \o ScanLineShared(runs, k, r + 1)

\* The hits of one rule on the lines from k on.
RECURSIVE RuleHits(_, _, _)
RuleHits(run, n, k) ==
  IF k > n THEN <<>> ELSE run[k].hits \o RuleHits(run, n, k + 1)

\* The hits rule after rule, from rule r on.
RECURSIVE RuleMajor(_, _, _)
RuleMajor(runs, n, r) ==
  IF r > Len(runs) THEN <<>>
  ELSE RuleHits(runs[r], n, 1) \o RuleMajor(runs, n, r + 1)

\* LINT_RULES.forEach outside lines.forEach: every line under the first
\* rule, then every line under the second, and so on.
ScanLinesShared_RuleMajor(runs, n, k) == RuleMajor(runs, n, 1)

\* lines.forEach: the hits pushed, line after line.
RECURSIVE ScanLinesShared(_, _, _)
ScanLinesShared(runs, n, k) ==
  IF k > n THEN <<>>
  ELSE ScanLineShared(runs, k, 1) \o ScanLinesShared(runs, n, k + 1)

\* const weights = { critical: 20, high: 8, medium: 4, low: 2 }
weights == [critical |-> 20, high |-> 8, medium |-> 4, low |-> 2]

\* A table in which the lowest severity costs nothing.
HitWeight_LowFree(h) ==
  IF h.severity = "low" THEN 0
  ELSE IF h.severity \in DOMAIN weights THEN weights[h.severity] ELSE DEFAULT_WEIGHT

\* weights[h.severity] || 4
HitWeight(h) ==
  IF h.severity \in DOMAIN weights /\ weights[h.severity] # 0
    THEN weights[h.severity] ELSE DEFAULT_WEIGHT

\* penalty = ... in place of penalty += ...: the last hit alone counts.
Penalty_LastOnly(hits, k) ==
  IF Len(hits) = 0 THEN 0 ELSE HitWeight(hits[Len(hits)])

\* hits.forEach((h) => { penalty += ... })
RECURSIVE Penalty(_, _)
Penalty(hits, k) ==
  IF k > Len(hits) THEN 0 ELSE HitWeight(hits[k]) + Penalty(hits, k + 1)

\* Subtract first, then floor at 0, with no cap on the penalty.
ScoreOf_NoCap(penalty) == Max(0, SCORE_BASE - penalty)

\* Math.max(0, 100 - Math.min(98, penalty))
ScoreOf(penalty) == Max(0, SCORE_BASE - Min(PENALTY_CAP, penalty))

\* lint(text) on patterns in the state the module load leaves them in.
Lint(text) ==
  LET hits == ScanLines(SplitLines(text), 1)
  IN  [score |-> ScoreOf(Penalty(hits, 1)), hits |-> hits]

\* --------------------------------------------------------------- prompts
\* String.prototype.trim on the content the capability returns: leading and
\* trailing line terminators are whitespace and are removed.
RECURSIVE TrimLeft(_)
TrimLeft(t) ==
  IF Len(t) > 0 /\ t[1] \in LineBreaks THEN TrimLeft(Tail(t)) ELSE t

RECURSIVE TrimRight(_)
TrimRight(t) ==
  IF Len(t) > 0 /\ t[Len(t)] \in LineBreaks
    THEN TrimRight(SubSeq(t, 1, Len(t) - 1)) ELSE t

Trim(t) == TrimRight(TrimLeft(t))

\* issues.map(...) without the slice: every issue is listed.
IssueList_All(issues) ==
  [k \in 1..Len(issues) |-> [line |-> issues[k].line, match |-> issues[k].match,
                             description |-> issues[k].description]]

\* issues.slice(0, 10).map(i => `- Line ${i.line}: "${i.match}" (${i.description})`)
IssueList(issues) ==
  LET n == Min(REPAIR_ISSUE_LIMIT, Len(issues))
  IN  [k \in 1..n |-> [line |-> issues[k].line, match |-> issues[k].match,
                       description |-> issues[k].description]]

NoCall == [kind |-> "none", text |-> <<>>, issues |-> <<>>, model |-> "none"]

\* The user message of the first call: getDraftPrompt(task) or
\* getRewritePrompt(inputText); the system message is the same in every call.
getFirstPrompt(kind, input, model) ==
  [kind |-> kind, text |-> input, issues |-> <<>>, model |-> model]

getRepairPrompt(t, issues, model) ==
  [kind |-> "repair", text |-> t, issues |-> IssueList(issues), model |-> model]

\* ------------------------------------------------------------------ state
VARIABLES
  pc,              \* position of the process
  opts,            \* parseArgs(process.argv): mode, maxLoops, model
  client,          \* _client is set
  call,            \* arguments of the chat call in progress
  text,            \* text of the session
  score,           \* score of the last lint
  hits,            \* hits of the last lint
  loops,           \* loops of runRepairLoop
  result,          \* the tuple runRepairLoop returned
  delivered,       \* the text main wrote to --out or stdout
  exitCode,        \* argument of process.exit
  lastError,       \* status of the last error chat caught
  retries,         \* retries of the chat call in progress (saturating)
  rateLimits,      \* rate-limit errors seen in all (saturating)
  repairCalls,     \* repair calls started
  lintCalls,       \* lint invocations
  textsObtained,   \* texts chat has returned
  firstOutcome,    \* outcome of the first request to the capability
  allDirty,        \* every text chat returned so far has findings
  cancelRequested, \* an external cancel request has been raised
  lastIndex,       \* pattern.lastIndex of each rule of LINT_RULES
  probe,           \* an earlier lint call and its result
  sessions,        \* generateText / rewriteText calls in progress side by side
  scan             \* the exec loop of one rule on one line, in progress

vars == << pc, opts, client, call, text, score, hits, loops, result, delivered,
           exitCode, lastError, retries, rateLimits, repairCalls, lintCalls,
           textsObtained, firstOutcome, allDirty, cancelRequested, lastIndex, probe, sessions,
           scan >>

NoExit == 0 - 1
NoScore == 0 - 1
NoResult == [text |-> <<>>, score |-> NoScore, hits |-> <<>>, loops |-> NoScore]
NoDelivery == [written |-> FALSE, text |-> <<>>]
NoProbe == [text |-> <<>>, score |-> NoScore, hits |-> <<>>, between |-> FALSE]

\* No exec loop in progress.
NoScan == [rule |-> 1, line |-> <<>>, hits |-> <<>>, active |-> FALSE]

\* The sessions run side by side in one process, and a session not yet
\* started.  alone is what the lints of the session give on patterns no
\* other session touches; overlapped records a lint made while the other
\* session was waiting for the capability.
Sessions == {1, 2}
NoSession ==
  [pc |-> "idle", call |-> NoCall, text |-> <<>>, score |-> NoScore,
   hits |-> <<>>, loops |-> 0, result |-> NoResult,
   alone |-> [score |-> NoScore, hits |-> <<>>, lastIndex |-> FreshIndex],
   overlapped |-> FALSE]

Modes == {"lint", "rewrite", "generate"}
Models == {"gpt-4o", "gpt-4o-mini"}
FaultStatuses == {500, 401}

\* Texts the capability returns, and texts read from the input file.
CapTexts == TextsUpTo(CapAlphabet, MaxCapLen)

\* Texts of the files given to the lint command.
LintTexts == TextsUpTo(Alphabet, MaxLen) \cup TextsUpTo(FullAlphabet, MaxFullLen)
InputSamples == { <<"plain">>, <<"leverage", NL, "as an ai">> }

\* parseInt(next, 10) || MAX_LOOPS_DEFAULT: NaN (no number given) and 0 are
\* falsy and give the default.
ParseMaxLoops(given, n) == IF given /\ n # 0 THEN n ELSE MAX_LOOPS_DEFAULT

MaxLoopsValues ==
  {ParseMaxLoops(g, n) : g \in BOOLEAN, n \in (0 - NegLoopsArg)..MaxLoopsArg}

Saturate(n) == Min(n, MaxCount)

\* The process before main runs.
Fresh ==
  /\ pc = "start"
  /\ client = FALSE
  /\ call = NoCall
  /\ text = <<>>
  /\ score = NoScore
  /\ hits = <<>>
  /\ loops = 0
  /\ result = NoResult
  /\ delivered = NoDelivery
  /\ exitCode = NoExit
  /\ lastError = 0
  /\ retries = 0
  /\ rateLimits = 0
  /\ repairCalls = 0
  /\ lintCalls = 0
  /\ textsObtained = 0
  /\ firstOutcome = "none"
  /\ allDirty = TRUE
  /\ cancelRequested = FALSE
  /\ lastIndex = FreshIndex
  /\ probe = NoProbe
  /\ sessions = [s \in Sessions |-> NoSession]
  /\ scan = NoScan

Init ==
  /\ opts \in [mode : Modes, maxLoops : MaxLoopsValues, model : Models]
  /\ Fresh

\* ------------------------------------------------------------------- main
ghosts == << retries, rateLimits, repairCalls, textsObtained, firstOutcome, allDirty >>
extras == << probe, sessions, scan >>
session == << call, loops, result, delivered, lastError >>

\* The lastIndex each pattern is left with after the last of n lines.
LastIndexes(runs, n) == [r \in DOMAIN LINT_RULES |-> runs[r][n].lastIndex]

\* ({ score, hits } = lint(t)) as the program runs it: on the patterns of
\* LINT_RULES, whose lastIndex every call reads and writes.
LintShared(t) ==
  \E lines \in {SplitLines(t)} :
  \E runs \in {AllRuns(lines, 1, lastIndex)} :
  \E found \in {ScanLinesShared(runs, Len(lines), 1)} :
    /\ hits' = found
    /\ score' = ScoreOf(Penalty(found, 1))
    /\ lastIndex' = LastIndexes(runs, Len(lines))

\* An exit status that forgets the findings.
ExitStatus_AlwaysClean(h) == EXIT_CLEAN

\* hits.length > 0 ? 2 : 0
ExitStatus(h) == IF Len(h) > 0 THEN EXIT_FINDINGS ELSE EXIT_CLEAN

\* Lint mode: a missing file is fatal; otherwise lint, print, exit.
LintCommand(files) ==
  /\ pc = "start" /\ opts.mode = "lint"
  /\ \E exists \in BOOLEAN :
       IF ~exists
         THEN /\ pc' = "exited" /\ exitCode' = EXIT_FATAL
              /\ UNCHANGED << text, score, hits, lintCalls, lastIndex >>
         ELSE \E t \in files :
              /\ text' = t
              /\ LintShared(t)
              /\ lintCalls' = lintCalls + 1
              /\ pc' = "exited" /\ exitCode' = ExitStatus(hits')
  /\ UNCHANGED << opts, client, session, ghosts, cancelRequested, extras >>

StartLint == LintCommand(CapTexts)

\* Rewrite mode up to the first chat call of rewriteText, and generate mode
\* up to the first chat call of generateText.  A missing file or task is
\* fatal.
StartSession ==
  /\ pc = "start" /\ opts.mode \in {"rewrite", "generate"}
  /\ \E present \in BOOLEAN :
       IF ~present
         THEN /\ pc' = "exited" /\ exitCode' = EXIT_FATAL
              /\ UNCHANGED call
         ELSE \E input \in InputSamples :
              /\ call' = getFirstPrompt(IF opts.mode = "rewrite" THEN "rewrite" ELSE "draft",
                                        input, opts.model)
              /\ pc' = "chat" /\ UNCHANGED exitCode
  /\ UNCHANGED << opts, client, text, score, hits, loops, result, delivered,
                  lastError, lintCalls, ghosts, cancelRequested, lastIndex, extras >>

\* ------------------------------------------------------------------- chat
\* getClient, then the request is sent.  Without OPENAI_API_KEY the first
\* getClient ends the process.
ChatEnter ==
  /\ pc = "chat"
  /\ \E keySet \in BOOLEAN :
       IF ~client /\ ~keySet
         THEN pc' = "exited" /\ exitCode' = EXIT_FATAL /\ UNCHANGED client
         ELSE pc' = "await_api" /\ client' = TRUE /\ UNCHANGED exitCode
  /\ UNCHANGED << opts, call, text, score, hits, loops, result, delivered,
                  lastError, lintCalls, ghosts, cancelRequested, lastIndex, extras >>

NoteFirst(o) == IF firstOutcome = "none" THEN o ELSE firstOutcome

\* The request resolves: chat returns the trimmed content to its caller,
\* which assigns it to text.
ApiReturns(contents) ==
  /\ pc = "await_api"
  /\ \E raw \in contents :
       \E t \in {Trim(raw)} : \E clean \in {Len(Lint(t).hits) = 0} :
           /\ text' = t
           /\ firstOutcome' = NoteFirst(IF clean THEN "clean" ELSE "dirty")
           /\ allDirty' = (allDirty /\ ~clean)
  /\ pc' = IF call.kind = "repair" THEN "after_repair" ELSE "loop_entry"
  /\ call' = NoCall
  /\ retries' = 0
  /\ textsObtained' = textsObtained + 1
  /\ UNCHANGED << opts, client, score, hits, loops, result, delivered, exitCode,
                  lastError, rateLimits, repairCalls, lintCalls, cancelRequested, lastIndex, extras >>

\* A catch block that retries whatever the error is.
IsRateLimit_Any(status) == status = status

ApiText == ApiReturns(CapTexts)

\* error.status === 429
IsRateLimit(status) == status = RATE_LIMIT_STATUS

\* The request rejects: the catch block of chat waits and calls chat again
\* with the same arguments on a rate limit, and rethrows anything else.
ApiError ==
  /\ pc = "await_api"
  /\ \E status \in {RATE_LIMIT_STATUS} \cup FaultStatuses :
       IF IsRateLimit(status)
         THEN /\ pc' = "backoff"
              /\ retries' = Saturate(retries + 1)
              /\ rateLimits' = Saturate(rateLimits + 1)
              /\ lastError' = status
              /\ firstOutcome' = NoteFirst("rate")
         ELSE /\ pc' = "throwing"
              /\ lastError' = status
              /\ firstOutcome' = NoteFirst("fault")
              /\ UNCHANGED << retries, rateLimits >>
  /\ UNCHANGED << opts, client, call, text, score, hits, loops, result, delivered,
                  exitCode, repairCalls, lintCalls, textsObtained, allDirty,
                  cancelRequested, lastIndex, extras >>

\* The 5 s timer fires: return chat(messages, model).
BackoffDone ==
  /\ pc = "backoff"
  /\ pc' = "chat"
  /\ UNCHANGED << opts, client, call, text, score, hits, loops, result, delivered,
                  exitCode, lastError, lintCalls, ghosts, cancelRequested, lastIndex, extras >>

\* main().catch: the rejection reaches the top level.
MainCatch ==
  /\ pc = "throwing"
  /\ pc' = "exited" /\ exitCode' = EXIT_FATAL
  /\ UNCHANGED << opts, client, call, text, score, hits, loops, result, delivered,
                  lastError, lintCalls, ghosts, cancelRequested, lastIndex, extras >>

\* ---------------------------------------------------------- runRepairLoop
\* let { score, hits } = lint(text); let loops = 0;
LoopEntry ==
  /\ pc = "loop_entry"
  /\ LintShared(text)
  /\ loops' = 0
  /\ lintCalls' = lintCalls + 1
  /\ pc' = "loop_test"
  /\ UNCHANGED << opts, client, call, text, result, delivered, exitCode,
                  lastError, ghosts, cancelRequested, extras >>

\* A loop test that runs one iteration too many.
LoopContinues_OffByOne(h, l, maxLoops) == Len(h) > 0 /\ l <= maxLoops

\* hits.length > 0 && loops < maxLoops
LoopContinues(h, l, maxLoops) == Len(h) > 0 /\ l < maxLoops

\* A while that tests the iteration count alone.
LoopTest_IgnoreClean ==
  /\ pc = "loop_test"
  /\ IF loops < opts.maxLoops
       THEN /\ call' = getRepairPrompt(text, hits, opts.model)
            /\ repairCalls' = repairCalls + 1
            /\ pc' = "chat"
            /\ UNCHANGED result
       ELSE /\ result' = [text |-> text, score |-> score, hits |-> hits, loops |-> loops]
            /\ pc' = "returned"
            /\ UNCHANGED << call, repairCalls >>
  /\ UNCHANGED << opts, client, text, score, hits, loops, delivered, exitCode,
                  lastError, retries, rateLimits, lintCalls, textsObtained,
                  firstOutcome, allDirty, cancelRequested, lastIndex, extras >>

\* The while test: start the next repair call, or return the tuple.
LoopTest ==
  /\ pc = "loop_test"
  /\ IF LoopContinues(hits, loops, opts.maxLoops)
       THEN /\ call' = getRepairPrompt(text, hits, opts.model)
            /\ repairCalls' = repairCalls + 1
            /\ pc' = "chat"
            /\ UNCHANGED result
       ELSE /\ result' = [text |-> text, score |-> score, hits |-> hits, loops |-> loops]
            /\ pc' = "returned"
            /\ UNCHANGED << call, repairCalls >>
  /\ UNCHANGED << opts, client, text, score, hits, loops, delivered, exitCode,
                  lastError, retries, rateLimits, lintCalls, textsObtained,
                  firstOutcome, allDirty, cancelRequested, lastIndex, extras >>

\* An iteration that does not count itself.
NextLoops_Forgotten(l) == l

\* loops += 1
NextLoops(l) == l + 1

\* loops += 1 alone: the repaired text is not linted again.
AfterRepair_NoLint ==
  /\ pc = "after_repair"
  /\ loops' = NextLoops(loops)
  /\ pc' = "loop_test"
  /\ UNCHANGED << opts, client, call, text, score, hits, result, delivered,
                  exitCode, lastError, lintCalls, ghosts, cancelRequested,
                  lastIndex, extras >>

\* ({ score, hits } = lint(text)); loops += 1;
AfterRepair ==
  /\ pc = "after_repair"
  /\ LintShared(text)
  /\ loops' = NextLoops(loops)
  /\ lintCalls' = lintCalls + 1
  /\ pc' = "loop_test"
  /\ UNCHANGED << opts, client, call, text, result, delivered, exitCode,
                  lastError, ghosts, cancelRequested, extras >>

\* main after the session resolved: print, write the text, exit.  With
\* --out the text goes through fs.writeFileSync, which throws when the path
\* cannot be written; the rejection then reaches main().catch.
MainFinish ==
  /\ pc = "returned"
  /\ \E written \in BOOLEAN :
       IF written
         THEN /\ delivered' = [written |-> TRUE, text |-> result.text]
              /\ pc' = "exited" /\ exitCode' = ExitStatus(result.hits)
         ELSE /\ pc' = "throwing"
              /\ UNCHANGED << delivered, exitCode >>
  /\ UNCHANGED << opts, client, call, text, score, hits, loops, result,
                  lastError, lintCalls, ghosts, cancelRequested, lastIndex, extras >>

\* An external cancel request (timeout, user abort) is raised while a
\* session runs.  runRepairLoop takes no signal or flag and tests none.
CancelRequest ==
  /\ pc \in {"chat", "await_api", "backoff", "loop_entry", "loop_test", "after_repair"}
  /\ ~cancelRequested
  /\ cancelRequested' = TRUE
  /\ UNCHANGED << pc, opts, client, call, text, score, hits, loops, result,
                  delivered, exitCode, lastError, lintCalls, ghosts, lastIndex, extras >>

Next ==
  \/ StartLint
  \/ StartSession
  \/ ChatEnter
  \/ ApiText
  \/ ApiError
  \/ BackoffDone
  \/ MainCatch
  \/ LoopEntry
  \/ LoopTest
  \/ AfterRepair
  \/ MainFinish
  \/ CancelRequest

Spec == Init /\ [][Next]_vars

\* Every step of the program that is enabled is eventually taken: a pending
\* request settles, a timer fires, a continuation runs.
FairSpec ==
  /\ Spec
  /\ WF_vars(StartLint \/ StartSession \/ ChatEnter \/ ApiText \/ ApiError
             \/ BackoffDone \/ MainCatch \/ LoopEntry \/ LoopTest
             \/ AfterRepair \/ MainFinish)

\* A session against a capability that answers every request, and never
\* with a text that lints clean.  Every enabled step is eventually taken.
StubAlphabet == {"as an ai", "**b**"}

ApiDirtyText ==
  ApiReturns(TextsUpTo(StubAlphabet, MaxCapLen)) /\ Len(Lint(text').hits) > 0

NeverCleanInit ==
  /\ opts \in [mode : {"rewrite", "generate"}, maxLoops : MaxLoopsValues,
               model : {"gpt-4o"}]
  /\ Fresh

NeverCleanNext ==
  \/ StartSession
  \/ ChatEnter
  \/ ApiDirtyText
  \/ LoopEntry
  \/ LoopTest
  \/ AfterRepair
  \/ MainFinish
  \/ MainCatch

NeverCleanSpec ==
  NeverCleanInit /\ [][NeverCleanNext]_vars /\ WF_vars(NeverCleanNext)

\* The lint command alone, on every file text of LintTexts.
LintRun == LintCommand(LintTexts)

LintInit ==
  /\ opts = [mode |-> "lint", maxLoops |-> MAX_LOOPS_DEFAULT, model |-> "gpt-4o"]
  /\ Fresh

LintNext == LintRun

LintSpec == LintInit /\ [][LintNext]_vars

\* lint called again and again in one process, as runRepairLoop calls it,
\* on the same patterns.  probe keeps one of the calls and its result, and
\* whether a call on another text has followed it.
RelintAlphabet == {NL, "as an ai", "in conclusion, "}

RelintTexts == TextsUpTo(RelintAlphabet, MaxRelintLen)

LintCall ==
  /\ \E t \in RelintTexts :
       /\ text' = t
       /\ LintShared(t)
       /\ IF probe = NoProbe
            THEN probe' \in {probe, [text |-> t, score |-> score',
                                     hits |-> hits', between |-> FALSE]}
            ELSE probe' = [probe EXCEPT !.between = @ \/ t # probe.text]
  /\ lintCalls' = Saturate(lintCalls + 1)
  /\ UNCHANGED << pc, opts, client, session, exitCode, ghosts, cancelRequested,
                  sessions, scan >>

RelintInit ==
  /\ opts = [mode |-> "lint", maxLoops |-> MAX_LOOPS_DEFAULT, model |-> "gpt-4o"]
  /\ Fresh

RelintNext == LintCall

RelintSpec == RelintInit /\ [][RelintNext]_vars

\* lint called on a text, then on that text with one more token appended,
\* and so on.
LintAppended ==
  /\ Len(text) < MaxLen \/ lintCalls = 0
  /\ \E tok \in Alphabet :
       /\ text' = IF lintCalls = 0 THEN text ELSE Append(text, tok)
       /\ LintShared(text')
  /\ lintCalls' = Saturate(lintCalls + 1)
  /\ UNCHANGED << pc, opts, client, session, exitCode, ghosts, cancelRequested,
                  extras >>

AppendNext == LintAppended

AppendSpec == RelintInit /\ [][AppendNext]_vars

\* A session against a capability whose texts have about as many findings
\* as a repair request lists, on one line or two.
LongText(n, split) ==
  [k \in 1..n |-> IF split /\ k = 3 THEN NL
                  ELSE IF k % 2 = 1 THEN "leverage" ELSE "as an ai"]

LongTexts ==
  {LongText(n, split) : n \in (REPAIR_ISSUE_LIMIT - 1)..MaxIssues, split \in BOOLEAN}
  \cup {<< "plain" >>, << "as an ai" >>}

ApiLongText == ApiReturns(LongTexts)

RepairInit ==
  /\ opts \in [mode : {"rewrite", "generate"}, maxLoops : {1, MaxLoopsArg},
               model : {"gpt-4o"}]
  /\ Fresh

RepairNext ==
  \/ StartSession
  \/ ChatEnter
  \/ ApiLongText
  \/ LoopEntry
  \/ LoopTest
  \/ AfterRepair
  \/ MainFinish
  \/ MainCatch

RepairSpec == RepairInit /\ [][RepairNext]_vars

\* ------------------------------------------------------- the exec loop
\* The while loop of lint step by step, for one rule on one line: the reset
\* of lastIndex, then one call of rule.pattern.exec(line) per step.
ScanAlphabet == {"plain", "as an ai", "in conclusion, "}
ScanLinesOf == TextsUpTo(ScanAlphabet, MaxScanLen)

\* The rules that match a token of ScanAlphabet, and one that matches none.
ScanRules ==
  {r \in 1..Len(LINT_RULES) : LINT_RULES[r].tokens \cap ScanAlphabet # {}} \cup {1}

\* A pattern without the g flag: exec leaves lastIndex at 0.
ExecIndex_NoGlobal(m) == 0

\* lastIndex after a match of the token at place m: the end of the match.
ExecIndex(m) == m

\* rule.pattern.lastIndex = 0; let match;
ScanStart ==
  /\ ~scan.active
  /\ \E r \in ScanRules, line \in ScanLinesOf :
       /\ scan' = [rule |-> r, line |-> line, hits |-> <<>>, active |-> TRUE]
       /\ lastIndex' = [lastIndex EXCEPT ![r] = 0]
  /\ UNCHANGED << pc, opts, client, call, text, score, hits, loops, result,
                  delivered, exitCode, lastError, lintCalls, ghosts,
                  cancelRequested, probe, sessions >>

\* while ((match = rule.pattern.exec(line)) !== null) { hits.push(...);
\* if (!match[0]) break; }: exec searches from lastIndex; null ends the loop
\* and leaves lastIndex at 0; a match is pushed and lastIndex moves to its
\* end; an empty match ends the loop.
ScanExec ==
  /\ scan.active
  /\ LET r == scan.rule
         m == NextMatch(LINT_RULES[r], scan.line, lastIndex[r] + 1)
     IN  IF m = 0
           THEN /\ lastIndex' = [lastIndex EXCEPT ![r] = 0]
                /\ scan' = [scan EXCEPT !.active = FALSE]
           ELSE /\ lastIndex' = [lastIndex EXCEPT ![r] = ExecIndex(m)]
                /\ scan' = [scan EXCEPT
                              !.hits = Append(@, Head(ScanRule(LINT_RULES[r], scan.line, 1, m))),
                              !.active = TokLen(scan.line[m]) > 0]
  /\ UNCHANGED << pc, opts, client, call, text, score, hits, loops, result,
                  delivered, exitCode, lastError, lintCalls, ghosts,
                  cancelRequested, probe, sessions >>

ScanNext == ScanStart \/ ScanExec

\* The loop is synchronous: a step that can run does run.
ScanSpec == RelintInit /\ [][ScanNext]_vars /\ WF_vars(ScanExec)

\* ------------------------------------------------- sessions side by side
\* Two calls of generateText / rewriteText in one process.  Each runs from
\* await to await; a step of one may fall between any two steps of the
\* other.  They share _client and the patterns of LINT_RULES, and nothing
\* else: text, score, hits and loops are locals of each call.
ConcAlphabet == {"plain", "as an ai"}
ConcTexts == TextsUpTo(ConcAlphabet, MaxCapLen)

Others(s) == Sessions \ {s}
Waiting(s) == \E o \in Others(s) : sessions[o].pc = "await_api"
Running == pc = "start"

\* generateText(task) / rewriteText(inputText) is called.
ConcStart(s) ==
  /\ Running /\ sessions[s].pc = "idle"
  /\ \E kind \in {"rewrite", "draft"}, input \in InputSamples :
       sessions' = [sessions EXCEPT ![s].pc = "chat",
                                    ![s].call = getFirstPrompt(kind, input, opts.model)]
  /\ UNCHANGED << pc, opts, client, call, text, score, hits, loops, result,
                  delivered, exitCode, lastError, lintCalls, ghosts,
                  cancelRequested, lastIndex, probe, scan >>

\* chat: getClient, then the request is sent.
ConcChat(s) ==
  /\ Running /\ sessions[s].pc = "chat"
  /\ \E keySet \in BOOLEAN :
       IF ~client /\ ~keySet
         THEN /\ pc' = "exited" /\ exitCode' = EXIT_FATAL
              /\ UNCHANGED << client, sessions >>
         ELSE /\ client' = TRUE
              /\ sessions' = [sessions EXCEPT ![s].pc = "await_api"]
              /\ UNCHANGED << pc, exitCode >>
  /\ UNCHANGED << opts, call, text, score, hits, loops, result, delivered,
                  lastError, lintCalls, ghosts, cancelRequested, lastIndex, probe, scan >>

\* The request of session s resolves.
ConcReturns(s) ==
  /\ Running /\ sessions[s].pc = "await_api"
  /\ \E raw \in ConcTexts :
       sessions' = [sessions EXCEPT
                      ![s].text = Trim(raw),
                      ![s].call = NoCall,
                      ![s].pc = IF sessions[s].call.kind = "repair"
                                  THEN "after_repair" ELSE "loop_entry"]
  /\ UNCHANGED << pc, opts, client, call, text, score, hits, loops, result,
                  delivered, exitCode, lastError, lintCalls, ghosts,
                  cancelRequested, lastIndex, probe, scan >>

\* ({ score, hits } = lint(text)) in session s, and the same lint on the
\* patterns as the session alone would have left them.
ConcLint(s, loopsAfter) ==
  \E lines \in {SplitLines(sessions[s].text)} :
  \E runs \in {AllRuns(lines, 1, lastIndex)} :
  \E found \in {ScanLinesShared(runs, Len(lines), 1)} :
  \E runsAlone \in {AllRuns(lines, 1, sessions[s].alone.lastIndex)} :
  \E foundAlone \in {ScanLinesShared(runsAlone, Len(lines), 1)} :
    /\ lastIndex' = LastIndexes(runs, Len(lines))
    /\ sessions' = [sessions EXCEPT
                      ![s].hits = found,
                      ![s].score = ScoreOf(Penalty(found, 1)),
                      ![s].loops = loopsAfter,
                      ![s].pc = "loop_test",
                      ![s].overlapped = @ \/ Waiting(s),
                      ![s].alone = [score |-> ScoreOf(Penalty(foundAlone, 1)),
                                    hits |-> foundAlone,
                                    lastIndex |-> LastIndexes(runsAlone, Len(lines))]]

\* let { score, hits } = lint(text); let loops = 0;
ConcLoopEntry(s) ==
  /\ Running /\ sessions[s].pc = "loop_entry"
  /\ ConcLint(s, 0)
  /\ UNCHANGED << pc, opts, client, call, text, score, hits, loops, result,
                  delivered, exitCode, lastError, lintCalls, ghosts,
                  cancelRequested, probe, scan >>

\* The while test of session s.
ConcLoopTest(s) ==
  /\ Running /\ sessions[s].pc = "loop_test"
  /\ LET me == sessions[s]
     IN  IF LoopContinues(me.hits, me.loops, opts.maxLoops)
           THEN sessions' = [sessions EXCEPT
                               ![s].call = getRepairPrompt(me.text, me.hits, opts.model),
                               ![s].pc = "chat"]
           ELSE sessions' = [sessions EXCEPT
                               ![s].result = [text |-> me.text, score |-> me.score,
                                              hits |-> me.hits, loops |-> me.loops],
                               ![s].pc = "returned"]
  /\ UNCHANGED << pc, opts, client, call, text, score, hits, loops, result,
                  delivered, exitCode, lastError, lintCalls, ghosts,
                  cancelRequested, lastIndex, probe, scan >>

\* ({ score, hits } = lint(text)); loops += 1;
ConcAfterRepair(s) ==
  /\ Running /\ sessions[s].pc = "after_repair"
  /\ ConcLint(s, NextLoops(sessions[s].loops))
  /\ UNCHANGED << pc, opts, client, call, text, score, hits, loops, result,
                  delivered, exitCode, lastError, lintCalls, ghosts,
                  cancelRequested, probe, scan >>

ConcInit ==
  /\ opts \in [mode : {"rewrite"}, maxLoops : {1, MaxLoopsArg}, model : {"gpt-4o"}]
  /\ Fresh

ConcNext ==
  \E s \in Sessions :
    \/ ConcStart(s)
    \/ ConcChat(s)
    \/ ConcReturns(s)
    \/ ConcLoopEntry(s)
    \/ ConcLoopTest(s)
    \/ ConcAfterRepair(s)

ConcSpec == ConcInit /\ [][ConcNext]_vars

\* ================================================================ claims
LintDone == pc = "exited" /\ lintCalls = 1 /\ opts.mode = "lint"

\* Number of hits of one severity.
CountSeverity(h, sev) == Cardinality({k \in 1..Len(h) : h[k].severity = sev})

\* C9: for every text T, lint(T).score is an integer in [0, 100], and it is
\* 100 if and only if lint(T).findings is empty; every finding carries a
\* strictly positive penalty weight.
C9_ScoreRange ==
  LintDone =>
    /\ score \in 0..100
    /\ (score = 100 <=> Len(hits) = 0)
    /\ \A k \in 1..Len(hits) : HitWeight(hits[k]) > 0

\* C9 witness: a linted text whose findings exceed the cap, and so score the
\* least a text with findings can.
C9_Witness == LintDone /\ Len(hits) >= 5 /\ score = 2

LoopRan == opts.mode # "lint" /\ lintCalls >= 1

Returned == opts.mode # "lint" /\ result # NoResult

\* The iteration count and the repair calls agree: a repair call in progress
\* is the only one not yet counted.
CountsAgree(bound) ==
  /\ lintCalls <= bound + 1
  /\ loops <= bound
  /\ loops <= repairCalls /\ repairCalls <= loops + 1
  /\ lintCalls = loops + 1
  /\ (pc = "loop_test" => repairCalls = loops)
  /\ (Returned => result.loops = repairCalls /\ result.loops <= bound)

\* C1 as stated: for every maxIterations value a run lints at most
\* maxIterations + 1 times, each repair iteration adds exactly 1 to
\* iterationsUsed, and the returned iterationsUsed is the number of repair
\* calls and never exceeds maxIterations.
C1_Original == LoopRan => CountsAgree(opts.maxLoops)

\* C1 amended: the same with max(maxIterations, 0) in place of
\* maxIterations: a negative maxIterations gives one lint and no repair.
C1_LoopBound == LoopRan => CountsAgree(Max(opts.maxLoops, 0))

\* C1 witness: a session that used every iteration of the default bound.
C1_Witness ==
  /\ Returned /\ pc = "returned"
  /\ opts.maxLoops = MAX_LOOPS_DEFAULT
  /\ result.loops = MAX_LOOPS_DEFAULT /\ repairCalls = MAX_LOOPS_DEFAULT
  /\ lintCalls = MAX_LOOPS_DEFAULT + 1

\* What C2 says of a session that returned and never got a clean text.
NeverCleanOutcome(bound) ==
  Returned /\ allDirty =>
    /\ repairCalls = bound
    /\ result.loops = bound
    /\ Len(result.hits) > 0
    /\ lintCalls = bound + 1

\* C2 as stated: with a capability that never returns clean text the session
\* ends after exactly maxIterations repair attempts, returns iterationsUsed =
\* maxIterations and a non-empty findings list, after maxIterations + 1 lint
\* invocations, for every configured maxIterations.
C2_Original == NeverCleanOutcome(opts.maxLoops)

\* C2 amended: the same with max(maxIterations, 0) in place of
\* maxIterations; against such a capability the session does end.
C2_NeverClean ==
  /\ [](NeverCleanOutcome(Max(opts.maxLoops, 0)))
  /\ <>(pc = "exited")

\* C2 witness: a session that never got a clean text and has ended after
\* maxIterations repairs.
C2_Witness ==
  /\ Returned /\ allDirty /\ pc = "exited"
  /\ opts.maxLoops = 2 /\ result.loops = 2 /\ exitCode = EXIT_FINDINGS

\* C3: when the first call to the capability returns clean text, the
\* capability is called exactly once, lint runs exactly once, no repair is
\* made and the session returns iterationsUsed = 0, no findings, score 100.
C3_FirstClean ==
  firstOutcome = "clean" =>
    /\ repairCalls = 0 /\ rateLimits = 0 /\ textsObtained = 1
    /\ lintCalls <= 1
    /\ (pc \in {"loop_test", "returned", "exited"} =>
          lintCalls = 1 /\ loops = 0 /\ Len(hits) = 0 /\ score = 100)
    /\ (pc \in {"returned", "exited"} =>
          result = [text |-> text, score |-> 100, hits |-> <<>>, loops |-> 0])

\* C3 witness: such a session has ended clean and delivered its text.
C3_Witness ==
  /\ firstOutcome = "clean" /\ pc = "exited" /\ exitCode = EXIT_CLEAN
  /\ delivered = [written |-> TRUE, text |-> text]

\* C4 as stated: a rate-limited call is retried once with the same
\* arguments; when the retried call fails too, the error propagates and
\* the call is not retried again.
C4_RetryOnce ==
  [][pc = "await_api" /\ pc' = "backoff" => call' = call /\ retries = 0]_vars

\* C5 as stated: every session eventually finishes, whatever the
\* capability does, a rate limit on every call included.
C5_Terminates == <>(pc = "exited")

\* Where a session is once chat has caught an error other than a rate limit.
FaultState ==
  lastError \in FaultStatuses =>
    /\ pc \in {"throwing", "exited"}
    /\ result = NoResult /\ delivered = NoDelivery
    /\ (pc = "exited" => exitCode = EXIT_FATAL)

\* The only step after such an error ends the process.
FaultStep ==
  lastError \in FaultStatuses =>
    /\ pc' = "exited"
    /\ UNCHANGED << lintCalls, repairCalls, retries, rateLimits,
                    textsObtained, text, call >>

\* C6: an error other than a rate limit is not retried: it ends the
\* command in the fatal state, exit status 1, with no further request, no
\* further lint and no result tuple.
C6_FaultPropagates ==
  /\ [](FaultState)
  /\ [][FaultStep]_vars

\* C6 witness: a repair call failed and the command has ended fatally.
C6_Witness ==
  /\ lastError \in FaultStatuses /\ pc = "exited" /\ exitCode = EXIT_FATAL
  /\ repairCalls >= 1 /\ textsObtained >= 1

\* C7 as stated: when a fault aborts the loop after a text was obtained,
\* that text is still delivered to the caller.
C7_TextKept ==
  pc = "exited" /\ lastError \in FaultStatuses /\ textsObtained >= 1 =>
    delivered = [written |-> TRUE, text |-> text]

\* A step of a session whose cancellation has been requested.
CancelledStep ==
  cancelRequested =>
    /\ repairCalls' = repairCalls
    /\ (pc = "loop_test" => pc' = "returned" /\ result'.text = text)

\* C8 as stated: once a cancel request is raised no further repair call is
\* started, and the session returns the text obtained so far.
C8_CancelStops == [][CancelledStep]_vars

\* The penalties of the README table: critical -20, high -8, medium -4,
\* low -2, one per finding.
ReadmePenalties(h) ==
  20 * CountSeverity(h, "critical") + 8 * CountSeverity(h, "high")
  + 4 * CountSeverity(h, "medium") + 2 * CountSeverity(h, "low")

\* C11 as stated (README, Scoring): the score is 100 minus the penalties
\* with a minimum of 0, score = max(0, 100 - penalties), so a text whose
\* penalties total 100 or more scores 0.
C11_ReadmeScore ==
  LintDone =>
    /\ score = Max(0, 100 - ReadmePenalties(hits))
    /\ (ReadmePenalties(hits) >= 100 => score = 0)

\* C12: calling lint twice on the same text yields the same findings, in
\* the same order and with the same content, and the same score, whatever
\* lint calls on other texts happened before or in between, although every
\* call uses the same pattern objects and their lastIndex.
C12_Idempotent ==
  probe # NoProbe /\ text = probe.text =>
    score = probe.score /\ hits = probe.hits

\* C12 witness: a text on which one pattern matches twice was linted, then
\* another text, then the first text again.
C12_Witness ==
  /\ probe # NoProbe /\ probe.between /\ text = probe.text
  /\ Len(hits) = 2 /\ hits[1].rule = hits[2].rule /\ lintCalls >= 2

\* A lint call on the text of the call before it with one token appended.
AppendStep ==
  lintCalls >= 1 /\ Len(text') = Len(text) + 1 =>
    /\ score' <= score
    /\ Len(hits') \in {Len(hits), Len(hits) + 1}
    /\ (Len(hits') = Len(hits) => score' = score)

AsAlone(s) ==
  LET me == sessions[s]
  IN  /\ me.score = me.alone.score /\ me.hits = me.alone.hits
      /\ (me.pc = "returned" =>
            me.result = [text |-> me.text, score |-> me.alone.score,
                         hits |-> me.alone.hits, loops |-> me.loops])

\* C14: sessions running concurrently, interleaved at their awaits on the
\* capability, share no mutable state that affects results: the text,
\* score, findings and iterationsUsed a session returns are those it would
\* have got running alone on the same capability responses.
C14_Independent == \A s \in Sessions : AsAlone(s)

\* C14 witness: both sessions returned after a repair each, and each linted
\* while the other was waiting for the capability.
C14_Witness ==
  \A s \in Sessions :
    /\ sessions[s].pc = "returned" /\ sessions[s].overlapped
    /\ sessions[s].result.loops >= 1 /\ Len(sessions[s].result.hits) > 0

\* The command produced its result: lint ran, or the session returned.
Produced ==
  IF opts.mode = "lint" THEN lintCalls = 1 ELSE result # NoResult

\* The command produced its result and put it out.
Succeeded ==
  IF opts.mode = "lint" THEN lintCalls = 1 ELSE delivered.written

\* The findings of the final lint.
FinalHits == IF opts.mode = "lint" THEN hits ELSE result.hits

\* C15 as stated: the exit status is 0 exactly when the operation succeeded
\* with zero findings, 2 exactly when it succeeded and findings remain, and
\* 1 exactly when a fatal fault occurred before a result was produced.
C15_Original ==
  pc = "exited" =>
    /\ (exitCode = EXIT_CLEAN <=> Produced /\ Len(FinalHits) = 0)
    /\ (exitCode = EXIT_FINDINGS <=> Produced /\ Len(FinalHits) > 0)
    /\ (exitCode = EXIT_FATAL <=> ~Produced)

\* C15 amended: 0 exactly when the operation succeeded with zero findings,
\* 2 exactly when it succeeded and findings remain (the iterations being
\* exhausted or not), and 1 exactly when a fatal fault occurred, before a
\* result was produced or on writing the output of a result.
C15_ExitStatus ==
  pc = "exited" =>
    /\ exitCode \in {EXIT_CLEAN, EXIT_FATAL, EXIT_FINDINGS}
    /\ (exitCode = EXIT_CLEAN <=> Succeeded /\ Len(FinalHits) = 0)
    /\ (exitCode = EXIT_FINDINGS <=> Succeeded /\ Len(FinalHits) > 0)
    /\ (exitCode = EXIT_FATAL <=> ~Succeeded)

\* C15 witness: a session used every iteration, findings remain, the text
\* was written and the status is 2.
C15_Witness ==
  /\ pc = "exited" /\ exitCode = EXIT_FINDINGS /\ delivered.written
  /\ opts.maxLoops = 2 /\ result.loops = 2 /\ Len(result.hits) > 0

\* Place of a rule in the catalog, and of a category in the order tone,
\* vocabulary, structure, formatting.
RuleIndex(id) == CHOOSE r \in 1..Len(LINT_RULES) : LINT_RULES[r].id = id

CategoryRank(cat) ==
  CASE cat = "tone" -> 1
    [] cat = "vocabulary" -> 2
    [] cat = "structure" -> 3
    [] cat = "formatting" -> 4
    [] OTHER -> 5

\* Finding a comes before finding b in the order of the claim.
ComesBefore(a, b) ==
  \/ a.line < b.line
  \/ /\ a.line = b.line
     /\ CategoryRank(a.category) <= CategoryRank(b.category)
     /\ \/ RuleIndex(a.rule) < RuleIndex(b.rule)
        \/ a.rule = b.rule /\ a.column < b.column

\* The places of a text where a pattern matches: line, token, rule.
MatchSites(t) ==
  LET lines == SplitLines(t)
  IN  {site \in (1..Len(lines)) \X (1..Len(t)) \X (1..Len(LINT_RULES)) :
         /\ site[2] <= Len(lines[site[1]])
         /\ lines[site[1]][site[2]] \in LINT_RULES[site[3]].tokens
         /\ (LINT_RULES[site[3]].anchored => site[2] = 1)}

\* C16: the findings of lint are in line-major order, within one line in
\* rule-declaration order with the categories in the order tone, vocabulary,
\* structure, formatting, and within one rule on one line in increasing
\* column order; every match has its own finding, several matches of one
\* rule on one line included.
C16_Order ==
  LintDone =>
    /\ \A a, b \in 1..Len(hits) : a < b => ComesBefore(hits[a], hits[b])
    /\ Len(hits) = Cardinality(MatchSites(text))

\* C16 witness: on line 1 a later rule matches twice before the column
\* where an earlier rule matches, and line 2 has a match of the earlier rule.
C16_Witness ==
  /\ LintDone /\ Len(hits) = 4
  /\ hits[1].line = 1 /\ hits[1].column > hits[2].column
  /\ hits[2].rule = hits[3].rule /\ hits[3].line = 1
  /\ hits[4].line = 2 /\ hits[4].rule = hits[1].rule

\* A step of the exec loop that leaves the loop running has moved the scan
\* position forward.
ScanAdvances ==
  scan.active /\ scan'.active =>
    lastIndex'[scan.rule] > lastIndex[scan.rule]

\* The scan position stays inside the line, and a loop that has ended has
\* pushed the hits of the rule on the line and left lastIndex as ExecLoop says.
ScanInRange ==
  /\ lastIndex[scan.rule] \in 0..Len(scan.line)
  /\ Len(scan.hits) <= Len(scan.line)
  /\ (~scan.active =>
        LET e == ExecLoop(LINT_RULES[scan.rule], scan.line, 1, 0)
        IN  (scan # NoScan => scan.hits = e.hits) /\ lastIndex[scan.rule] = e.lastIndex)

C18_RepairRequest ==
  call.kind = "repair" =>
    /\ call.text = text
    /\ hits = Lint(text).hits
    /\ Len(call.issues) = (IF Len(hits) > 10 THEN 10 ELSE Len(hits))
    /\ \A k \in 1..Len(call.issues) :
         call.issues[k] = [line |-> hits[k].line, match |-> hits[k].match,
                           description |-> hits[k].description]

\* C18 witness: the second repair request of a session, for a text of two
\* lines with 11 findings, lists ten of them.
C18_Witness ==
  /\ call.kind = "repair" /\ repairCalls = 2
  /\ Len(hits) = 11 /\ Len(call.issues) = 10
  /\ hits[11].line = 2 /\ call.issues[10].line = 2

\* C19: wherever the repair loop tests its exit condition, and in the tuple
\* it returns, score and findings are the lint result of the current text,
\* and the returned text is the last text the capability produced, whether
\* or not the clean state was reached.
C19_TupleIsLint ==
  /\ (pc = "loop_test" =>
        score = Lint(text).score /\ hits = Lint(text).hits)
  /\ (Returned =>
        /\ result.text = text
        /\ result.score = Lint(result.text).score
        /\ result.hits = Lint(result.text).hits
        /\ (result.score = 100 <=> Len(result.hits) = 0))

\* C19 witness: a session returned after its last repair with findings
\* left, the third text it got from the capability.
C19_Witness ==
  /\ pc = "returned" /\ textsObtained = 3 /\ result.loops = 2
  /\ Len(result.hits) > 0 /\ result.score < 100 /\ result.text = text

====
